---- MODULE Spec2Model ----
(***************************************************************************)
(* The probe-statistics engine of pinger: the durable store               *)
(* (src/src/services/database.ts, DatabaseService), the monitor           *)
(* (src/src/index.ts, class Pinger) and the snapshot the display retains  *)
(* (ScreenManager.updateDisplay).                                         *)
(*                                                                         *)
(* Latencies are JavaScript numbers in the source; here they are small    *)
(* positive integers, and every quotient (average, interpolated           *)
(* percentile) is an exact fraction in lowest terms.  SQL NULL and the    *)
(* JavaScript null it is read as are the value NULL.                      *)
(***************************************************************************)
EXTENDS Integers, Sequences, FiniteSets, TLC

\* ---------------------------------------------------------------- bounds
MaxRows == 4          \* rows the store may hold in the model
MaxLatency == 3       \* latencies are 1..MaxLatency
MaxLoadCount == 3     \* --load-count is 1..MaxLoadCount
MAX_GRAPH_SIZE == 2   \* index.ts:15 sets 50; scaled so that the LIMIT cuts
LOG_AFTER_PINGS == 2  \* index.ts:16 sets 10; the summary covers the last so many
LogEvery == 2         \* index.ts:227 takes totalPings % 10; scaled alike
maxStorageLimit == 3  \* database.ts:14 sets 10000000; scaled below MaxRows
MaxStopCalls == 2     \* stop() calls followed within one process
MaxLines == 2         \* lines of output of one ping process
MaxBackups == 1       \* backups followed in the folder old_db
MaxResetRows == 2     \* rows recorded where the folder old_db is followed

NULL == -1
NoTarget == ""
Targets == {"a", "b"}
Latencies == 1..MaxLatency
LoadCounts == 1..MaxLoadCount

\* ------------------------------------------------------- number helpers
MathMax(a, b) == IF a >= b THEN a ELSE b
MathMin(a, b) == IF a <= b THEN a ELSE b

\* JavaScript ToNumber on a count that may be null
ToNumber(x) == IF x = NULL THEN 0 ELSE x

RECURSIVE GCD(_, _)
GCD(a, b) == IF b = 0 THEN a ELSE GCD(b, a % b)

\* the quotient n / d (d > 0, n >= 0) in lowest terms
Quot(n, d) == LET g == GCD(n, d) IN [n |-> n \div g, d |-> d \div g]
Zero == [n |-> 0, d |-> 1]
Undefined == [n |-> NULL, d |-> 0]

RECURSIVE SeqSum(_)
SeqSum(s) == IF s = <<>> THEN 0 ELSE Head(s) + SeqSum(Tail(s))

RECURSIVE SeqMax(_)
SeqMax(s) == IF Len(s) = 1 THEN s[1] ELSE MathMax(s[1], SeqMax(Tail(s)))

RECURSIVE SeqMin(_)
SeqMin(s) == IF Len(s) = 1 THEN s[1] ELSE MathMin(s[1], SeqMin(Tail(s)))

\* the last n elements of s, in order (all of s when it is shorter)
LastN(s, n) == SubSeq(s, MathMax(1, Len(s) - n + 1), Len(s))

Reverse(s) == [i \in 1..Len(s) |-> s[Len(s) + 1 - i]]

RECURSIVE Insert(_, _)
Insert(x, s) ==
    IF s = <<>> THEN <<x>>
    ELSE IF x <= Head(s) THEN <<x>> \o s
    ELSE <<Head(s)>> \o Insert(x, Tail(s))

\* Array.prototype.sort((a, b) => a - b)
RECURSIVE SortAsc(_)
SortAsc(s) == IF s = <<>> THEN <<>> ELSE Insert(Head(s), SortAsc(Tail(s)))

\* ------------------------------------------------------------ the store
\* a ping_results row; id is the position in the table
Row(latency, isSuccessful) ==
    [latency |-> latency, is_successful |-> IF isSuccessful THEN 1 ELSE 0]

\* the ping_stats row that initDatabase inserts (column defaults)
InitPingStats ==
    [total_count |-> 0, total_sum |-> 0, historical_max |-> 0, historical_min |-> NULL]

\* saveResult, first statement: INSERT INTO ping_results
InsertResult(rows, latency, isSuccessful) == Append(rows, Row(latency, isSuccessful))

\* faulty variant: historical_min = MIN(historical_min, ?) without the IS NULL case
UpdatePingStatsNoNullCase(ps, latency, isSuccessful) ==
    IF isSuccessful /\ latency # NULL
    THEN [total_count    |-> ps.total_count + 1,
          total_sum      |-> ps.total_sum + latency,
          historical_max |-> MathMax(ps.historical_max, latency),
          historical_min |-> MathMin(ps.historical_min, latency)]
    ELSE ps

\* faulty variant: the UPDATE runs for every probe, total_count counting failures too
UpdatePingStatsCountsFailures(ps, latency, isSuccessful) ==
    IF isSuccessful /\ latency # NULL
    THEN [total_count    |-> ps.total_count + 1,
          total_sum      |-> ps.total_sum + latency,
          historical_max |-> MathMax(ps.historical_max, latency),
          historical_min |-> IF ps.historical_min = NULL THEN latency
                             ELSE MathMin(ps.historical_min, latency)]
    ELSE [ps EXCEPT !.total_count = ps.total_count + 1]

\* saveResult, second statement: UPDATE ping_stats ... WHERE id = 1
UpdatePingStats(ps, latency, isSuccessful) ==
    IF isSuccessful /\ latency # NULL
    THEN [total_count    |-> ps.total_count + 1,
          total_sum      |-> ps.total_sum + latency,
          historical_max |-> MathMax(ps.historical_max, latency),
          historical_min |-> IF ps.historical_min = NULL THEN latency
                             ELSE MathMin(ps.historical_min, latency)]
    ELSE ps

IsSuccessfulRow(r) == r.is_successful = 1 /\ r.latency # NULL

\* SELECT latency ... WHERE is_successful = 1 AND latency IS NOT NULL, by id ASC
SuccessfulLatencies(rows) ==
    LET sel == SelectSeq(rows, IsSuccessfulRow)
    IN  [i \in 1..Len(sel) |-> sel[i].latency]

\* SELECT latency ... ORDER BY id DESC LIMIT MAX_GRAPH_SIZE (newest first)
RecentLatencies(rows) == Reverse(LastN(SuccessfulLatencies(rows), MAX_GRAPH_SIZE))

IsOk(r) == r.is_successful = 1
IsNotOk(r) == r.is_successful = 0

\* SQL SUM(CASE WHEN cond THEN 1 ELSE 0 END): NULL over no rows
SqlSumOnes(rows, flag) ==
    IF rows = <<>> THEN NULL ELSE Len(SelectSeq(rows, LAMBDA r : r.is_successful = flag))

\* faulty variant: the counts taken over the whole table, the LIMIT dropped
CountStatsNoLimit(rows, limit) ==
    [total_pings      |-> Len(rows),
     successful_pings |-> SqlSumOnes(rows, 1),
     failed_pings     |-> SqlSumOnes(rows, 0)]

\* the counts over the limited_results CTE (ORDER BY id DESC LIMIT queryLimit)
CountStats(rows, limit) ==
    LET limited == LastN(rows, limit)
    IN  [total_pings      |-> Len(limited),
         successful_pings |-> SqlSumOnes(limited, 1),
         failed_pings     |-> SqlSumOnes(limited, 0)]

\* loadHistoricalStats: sortedLatencies[ceil(length * 0.99) - 1] || 0
LoadPercentile99(recent) ==
    LET sorted == SortAsc(recent)
        n      == Len(sorted)
        idx    == ((n * 99 + 99) \div 100) - 1      \* ceil(n * 0.99) - 1, 0-based
    IN  IF idx >= 0 /\ idx < n THEN Quot(sorted[idx + 1], 1) ELSE Zero

\* faulty variant: the rows of the query are handed on as they come, newest
\* first, the reverse() left out
LoadHistoricalStatsNewestFirst(rows, ps, limit) ==
    LET countStats == CountStats(rows, limit)
        recent     == RecentLatencies(rows)
    IN  [totalPings |-> countStats.total_pings,
         successful |-> countStats.successful_pings,
         failed     |-> countStats.failed_pings,
         latencies  |-> recent,
         stats      |-> [maxLatency   |-> ps.historical_max,
                         minLatency   |-> IF ps.historical_min = NULL THEN 0
                                          ELSE ps.historical_min,
                         avgLatency   |-> IF ps.total_count = 0 THEN Zero
                                          ELSE Quot(ps.total_sum, ps.total_count),
                         percentile99 |-> LoadPercentile99(recent)]]

\* DatabaseService.loadHistoricalStats
LoadHistoricalStats(rows, ps, limit) ==
    LET countStats == CountStats(rows, limit)
        recent     == RecentLatencies(rows)
    IN  [totalPings |-> countStats.total_pings,
         successful |-> countStats.successful_pings,
         failed     |-> countStats.failed_pings,
         latencies  |-> Reverse(recent),
         stats      |-> [maxLatency   |-> ps.historical_max,
                         minLatency   |-> IF ps.historical_min = NULL THEN 0
                                          ELSE ps.historical_min,
                         avgLatency   |-> IF ps.total_count = 0 THEN Zero
                                          ELSE Quot(ps.total_sum, ps.total_count),
                         percentile99 |-> LoadPercentile99(recent)]]

\* the file ping_history.sqlite: the tables it holds and their rows, a row of
\* ping_stats with its id. No file is a file without tables
AllTables == {"settings", "ping_results", "ping_stats"}
NoFile == [tables |-> {}, settings |-> {}, ping_results |-> <<>>, ping_stats |-> {}]

\* CREATE TABLE IF NOT EXISTS: a table that is there is left as it is
CreateTableIfNotExists(file, name) ==
    IF name \in file.tables THEN file
    ELSE [file EXCEPT !.tables = @ \cup {name},
                      ![name] = IF name = "ping_results" THEN <<>> ELSE {}]

\* faulty variant: INSERT OR REPLACE INTO ping_stats (id) VALUES (1)
InitDatabaseReplaces(file) ==
    LET created == CreateTableIfNotExists(
                       CreateTableIfNotExists(
                           CreateTableIfNotExists(file, "settings"),
                           "ping_results"),
                       "ping_stats")
    IN  [created EXCEPT !.ping_stats =
            {r \in @ : r.id # 1} \cup {[id |-> 1, row |-> InitPingStats]}]

\* DatabaseService.initDatabase: the three tables, then
\* INSERT OR IGNORE INTO ping_stats (id) VALUES (1); the index holds no data
InitDatabase(file) ==
    LET created == CreateTableIfNotExists(
                       CreateTableIfNotExists(
                           CreateTableIfNotExists(file, "settings"),
                           "ping_results"),
                       "ping_stats")
    IN  IF \E r \in created.ping_stats : r.id = 1 THEN created
        ELSE [created EXCEPT !.ping_stats = @ \cup {[id |-> 1, row |-> InitPingStats]}]

\* new DatabaseService(config) on the file, and the store as its queries then
\* read it; ping_stats is read WHERE id = 1
Opened(file) ==
    LET db == InitDatabase(file)
    IN  [file     |-> db,
         rows     |-> db.ping_results,
         ps       |-> (CHOOSE r \in db.ping_stats : r.id = 1).row,
         settings |-> db.settings]

\* what the variables of the store hold while there is no file
Absent == [rows |-> <<>>, ps |-> InitPingStats, settings |-> {}]

\* ---------------------------------------------------------- the monitor
\* Pinger.calculatePercentile(arr, p): linear interpolation between ranks
CalculatePercentile(arr, p) ==
    LET sorted == SortAsc(arr)
        n      == Len(sorted)
        posN   == (n - 1) * p                       \* pos = posN / 100
        base   == posN \div 100                     \* Math.floor(pos), 0-based
        restN  == posN % 100                        \* rest = restN / 100
    IN  IF base + 1 >= 0 /\ base + 1 < n
        THEN Quot(100 * sorted[base + 1] + restN * (sorted[base + 2] - sorted[base + 1]), 100)
        ELSE IF base >= 0 /\ base < n THEN Quot(sorted[base + 1], 1)
        ELSE Undefined

\* faulty variant: pop() in place of shift(): the newest entry is evicted
PushLatencyPop(history, limit, latency) ==
    LET pushed == Append(history, latency)
    IN  IF Len(pushed) > limit THEN SubSeq(pushed, 1, Len(pushed) - 1) ELSE pushed

\* updateStats: push, then shift once when the window is over queryLimit
PushLatency(history, limit, latency) ==
    LET pushed == Append(history, latency)
    IN  IF Len(pushed) > limit THEN Tail(pushed) ELSE pushed

\* faulty variant: the else branch counts the probe but not the failure
UpdateStatsDropsFailed(st, history, limit, latency, isSuccessful) ==
    IF isSuccessful /\ latency # NULL
    THEN LET all == PushLatency(history, limit, latency)
         IN  [totalPings |-> st.totalPings + 1,
              successful |-> ToNumber(st.successful) + 1,
              failed     |-> st.failed,
              latencies  |-> all,
              stats      |-> [maxLatency   |-> SeqMax(all),
                              minLatency   |-> SeqMin(all),
                              avgLatency   |-> Quot(SeqSum(all), Len(all)),
                              percentile99 |-> CalculatePercentile(all, 99)]]
    ELSE [st EXCEPT !.totalPings = st.totalPings + 1]

\* updateStats: the in-memory part (everything before db.saveResult)
UpdateStats(st, history, limit, latency, isSuccessful) ==
    IF isSuccessful /\ latency # NULL
    THEN LET all == PushLatency(history, limit, latency)
         IN  [totalPings |-> st.totalPings + 1,
              successful |-> ToNumber(st.successful) + 1,
              failed     |-> st.failed,
              latencies  |-> all,
              stats      |-> [maxLatency   |-> SeqMax(all),
                              minLatency   |-> SeqMin(all),
                              avgLatency   |-> Quot(SeqSum(all), Len(all)),
                              percentile99 |-> CalculatePercentile(all, 99)]]
    ELSE [st EXCEPT !.totalPings = st.totalPings + 1,
                    !.failed = ToNumber(st.failed) + 1]

\* ScreenManager.stats before the first updateDisplay; also the value the
\* process variables hold while no process runs
EmptyStats ==
    [totalPings |-> 0, successful |-> 0, failed |-> 0, latencies |-> <<>>,
     stats |-> [maxLatency |-> 0, minLatency |-> 0, avgLatency |-> Zero,
                percentile99 |-> Zero]]

\* ------------------------------------------------------------ the probe
\* The output of the ping process, line by line. A line is a piece of text or
\* a reply "time" sep whole ["." frac] [" "] "ms".
Text(t) == [kind |-> "text", text |-> t, sep |-> "", whole |-> 0, frac |-> NULL,
            space |-> FALSE]
Time(sep, whole, frac, space) ==
    [kind |-> "time", text |-> "", sep |-> sep, whole |-> whole, frac |-> frac,
     space |-> space]
Fracs == {NULL, 5}      \* no fraction, or ".5"
Lines ==
    {Text(t) : t \in {"Request timed out", "100% packet loss",
                      "Destination host unreachable", "Reply from"}}
    \cup {Time(sep, w, f, sp) :
            sep \in {"=", "<"}, w \in Latencies, f \in Fracs, sp \in BOOLEAN}
Outputs == UNION {[1..n -> Lines] : n \in 0..MaxLines}
Platforms == {"win32", "linux", "freebsd"}
Stderrs == {"", "ping: socket: Operation not permitted"}

\* output.includes(text)
Includes(output, t) ==
    \E i \in 1..Len(output) : output[i].kind = "text" /\ output[i].text = t
\* output.includes("time=")
IncludesTimeEq(output) ==
    \E i \in 1..Len(output) : output[i].kind = "time" /\ output[i].sep = "="

\* /time[=<](\d+)ms/ and /time=(\d+\.\d+) ms/ on one line
MatchesWin32(line) == line.kind = "time" /\ line.frac = NULL /\ ~line.space
MatchesUnix(line) ==
    line.kind = "time" /\ line.sep = "=" /\ line.frac # NULL /\ line.space
Matches(platform, line) ==
    IF platform = "win32" THEN MatchesWin32(line) ELSE MatchesUnix(line)

Success(latency) == [ok |-> TRUE, latency |-> latency, error |-> ""]
Failure(error) == [ok |-> FALSE, latency |-> Undefined, error |-> error]

\* parsePingOutput: parseFloat of the first match, or Error("Packet dropped")
ParsePingOutput(platform, output) ==
    LET hits == {i \in 1..Len(output) : Matches(platform, output[i])}
    IN  IF hits = {} THEN Failure("Packet dropped")
        ELSE LET timeMatch == output[CHOOSE i \in hits : \A j \in hits : i <= j]
             IN  Success(IF timeMatch.frac = NULL THEN Quot(timeMatch.whole, 1)
                         ELSE Quot(10 * timeMatch.whole + timeMatch.frac, 10))

\* faulty variant: "100% packet loss" is not looked for
PingIgnoresPacketLoss(platform, t, output) ==
    IF t = NoTarget THEN Failure("Target is required")
    ELSE IF platform \notin {"win32", "linux", "darwin"}
    THEN Failure("Unsupported platform")
    ELSE IF \/ Includes(output, "Request timed out")
            \/ Includes(output, "Destination host unreachable")
            \/ ~IncludesTimeEq(output)
    THEN Failure("Packet dropped")
    ELSE ParsePingOutput(platform, output)

\* ping(target): what the promise settles with, given what the spawned process
\* wrote to its standard output (its standard error is never read)
Ping(platform, t, output) ==
    IF t = NoTarget THEN Failure("Target is required")
    ELSE IF platform \notin {"win32", "linux", "darwin"}
    THEN Failure("Unsupported platform")
    ELSE IF \/ Includes(output, "Request timed out")
            \/ Includes(output, "100% packet loss")
            \/ Includes(output, "Destination host unreachable")
            \/ ~IncludesTimeEq(output)
    THEN Failure("Packet dropped")
    ELSE ParsePingOutput(platform, output)

NoSpawn == [platform |-> "linux", target |-> NoTarget, stdout |-> <<>>, stderr |-> ""]
NotProbed == [ran |-> FALSE, result |-> Failure("")]

\* the summary the loop logs every LogEvery pings, over the last
\* LOG_AFTER_PINGS entries of the window (latencyHistory.slice(-LOG_AFTER_PINGS))
Summary(history) ==
    LET recentLatencies == LastN(history, LOG_AFTER_PINGS)
    IN  [logged |-> TRUE, count |-> Len(recentLatencies),
         percentile99 |-> CalculatePercentile(recentLatencies, 99)]
NoSummary == [logged |-> FALSE, count |-> 0, percentile99 |-> Zero]

\* Pinger.stop(options): the exit code it ends the process with, NULL when it
\* returns to its caller
StopExitCode(options) ==
    IF options.force THEN 0             \* process.exit(0)
    ELSE IF options.sendHelp THEN 0     \* printHelpAndExit: program.help(), process.exit(0)
    ELSE NULL
StopOptions(sendHelp, force) == [sendHelp |-> sendHelp, force |-> force]

\* start(): the catch of the validation probe, stop({msg, sendHelp: true})
\* followed by process.exit(1)
ValidationFailureExitCode ==
    LET code == StopExitCode(StopOptions(TRUE, FALSE))
    IN  IF code # NULL THEN code ELSE 1

\* faulty variant: a failed validation probe is recorded like a failed tick
AfterValidationRecords(rows, failed) ==
    IF failed THEN InsertResult(rows, NULL, FALSE) ELSE rows

\* start(): the validation probe is awaited and its result dropped; nothing of
\* it reaches updateStats or the store
AfterValidation(rows, failed) == rows

\* Pinger.stop: screen.destroy() and db.close(), counted per process
NoTeardown == [screenDestroy |-> 0, dbClose |-> 0]
StopTeardown(td) ==
    [screenDestroy |-> td.screenDestroy + 1, dbClose |-> td.dbClose + 1]

\* start(): the position in the while loop and what it has set off. Before the
\* loop start() calls logger.cleanup("7d") once and getVersion() once; the loop
\* body calls neither
NoLoop == [at |-> "none", inFlight |-> 0, begun |-> 0, versionCheck |-> "none",
           writeError |-> FALSE, cleanups |-> 0, versionChecks |-> 0,
           closedWrites |-> 0]
LoopTop == [at |-> "top", inFlight |-> 0, begun |-> 0, versionCheck |-> "pending",
            writeError |-> FALSE, cleanups |-> 1, versionChecks |-> 1,
            closedWrites |-> 0]

\* faulty variant: the fatal paths stop with force set
FatalExitCodeForced ==
    LET code == StopExitCode(StopOptions(FALSE, TRUE))
    IN  IF code # NULL THEN code ELSE 1

\* the catch of start() and the uncaughtException / unhandledRejection
\* handlers: stop() without sendHelp or force, then process.exit(1)
FatalExitCode ==
    LET code == StopExitCode(StopOptions(FALSE, FALSE))
    IN  IF code # NULL THEN code ELSE 1

NoExit == [code |-> NULL, cause |-> "none"]
Exit(code, cause) == [code |-> code, cause |-> cause]

\* ------------------------------------------------------------ analytics
MaxSends == 2         \* calls of sendAnalytics followed

\* Text is a sequence of characters where the code looks inside it.
WhiteSpace == {" ", "\n", "\t"}
TrueText == <<"t", "r", "u", "e">>
FalseText == <<"f", "a", "l", "s", "e">>

\* Boolean.prototype.toString
BooleanToString(b) == IF b THEN TrueText ELSE FalseText

\* String.prototype.toLowerCase, a character at a time
LowerCaseOf(c) ==
    CASE c = "T" -> "t" [] c = "R" -> "r" [] c = "U" -> "u" [] c = "E" -> "e"
      [] c = "Y" -> "y" [] c = "N" -> "n" [] OTHER -> c
ToLowerCase(s) == [i \in 1..Len(s) |-> LowerCaseOf(s[i])]

\* String.prototype.trim
RECURSIVE TrimStart(_)
TrimStart(s) ==
    IF Len(s) > 0 /\ Head(s) \in WhiteSpace THEN TrimStart(Tail(s)) ELSE s
RECURSIVE TrimEnd(_)
TrimEnd(s) ==
    IF Len(s) > 0 /\ s[Len(s)] \in WhiteSpace
    THEN TrimEnd(SubSeq(s, 1, Len(s) - 1))
    ELSE s
Trim(s) == TrimEnd(TrimStart(s))

\* analytics-enabled.txt: absent, or present with its text; a present file
\* that cannot be read makes readFileSync throw
NoConsentFile == [exists |-> FALSE, readable |-> FALSE, content |-> <<>>]
ConsentFile(readable, content) ==
    [exists |-> TRUE, readable |-> readable, content |-> content]
FileContents ==
    {TrueText, FalseText, <<>>,
     <<"T", "R", "U", "E">>, <<"T", "r", "u", "e">>,
     <<"t", "r", "u", "e", "\n">>, <<" ", "t", "r", "u", "e">>,
     <<"u", "n", "t", "r", "u", "e">>, <<"t", "r", "u", "e", " ", "1">>,
     <<"t", " ", "r", "u", "e">>, <<"y">>, <<"1">>}
Answers == {<<"y">>, <<"Y">>, <<"n">>, <<>>, <<"y", "e", "s">>}

\* faulty variant: a user who was never asked counts as having consented
CheckAnalyticsConsentDefaultsOn(file) ==
    IF ~file.exists
    THEN "consent"
    ELSE IF ToLowerCase(Trim(file.content)) = TrueText
         THEN "consent"
         ELSE "no-consent"

\* checkAnalyticsConsent, of a file that can be read
CheckAnalyticsConsent(file) ==
    IF ~file.exists
    THEN "not-set"
    ELSE IF ToLowerCase(Trim(file.content)) = TrueText
         THEN "consent"
         ELSE "no-consent"

\* a number that is not one: 0 / 0, which JSON.stringify writes as null
NaN == [n |-> 0, d |-> 0]
Divide(n, d) == IF d = 0 THEN NaN ELSE Quot(n, d)

\* the statistics sendAnalytics is given, and the time the session has lasted
AnalyticsStats ==
    {st \in {[totalPings |-> t, successful |-> k, stats |-> [avgLatency |-> a]] :
                t \in 0..1, k \in 0..1, a \in {Zero, Quot(5, 1)}} :
        st.successful <= st.totalPings}
Durations == {0, 1}

\* the body of the POST of sendAnalytics
AnalyticsBody(st, duration) ==
    [duration |-> duration, totalPings |-> st.totalPings,
     successRate |-> Divide(st.successful, st.totalPings),
     avgLatency |-> st.stats.avgLatency]
NoBody == [duration |-> 0, totalPings |-> 0, successRate |-> NaN,
           avgLatency |-> Zero]

\* sendAnalytics before anything was asked of it: the consent file, the calls
\* made, the requests begun with the body of the last one, the errors logged,
\* and whether the promise of the last call was rejected
NoAnalytics ==
    [file |-> NoConsentFile, calls |-> 0, posts |-> 0, last |-> NoBody,
     logged |-> 0, propagated |-> FALSE]

\* ------------------------------------------------------------ the worker
Methods == {"GET", "POST", "OPTIONS", "PUT", "DELETE"}
Fields == {"sessionId", "timestamp", "duration", "totalPings", "successRate",
           "avgLatency", "platform"}

\* the parsed body of a request: the fields it carries and their values; a
\* number is a fraction, a string is empty or not
Payload(has, id, at, duration, pings, rate, latency, platform) ==
    [json |-> TRUE, has |-> has, sessionId |-> id, timestamp |-> at,
     duration |-> duration, totalPings |-> pings, successRate |-> rate,
     avgLatency |-> latency, platform |-> platform]
\* a body request.json() rejects
NotJson == [Payload({}, "", 0, 0, 0, Zero, Zero, "") EXCEPT !.json = FALSE]
FieldSets == {Fields} \cup {Fields \ {f} : f \in Fields}
Rates == {Zero, Quot(1, 2), Quot(1, 1), Quot(2, 1)}
Payloads ==
    {NotJson} \cup
    {Payload(has, "s", 1, 1, n, r, a, "linux") :
        has \in FieldSets, n \in {0, 1}, r \in Rates,
        a \in {Zero, Quot(5, 1)}}

\* !data.field of the worker: the field is missing, or 0, or ""
Falsy(data, f) ==
    \/ f \notin data.has
    \/ IF f \in {"sessionId", "platform"} THEN data[f] = ""
       ELSE IF f \in {"successRate", "avgLatency"} THEN data[f].n = 0
       ELSE data[f] = 0

\* "Check that data is valid" of the worker
IsValidPayload(data) == data.json /\ \A f \in Fields : ~Falsy(data, f)

\* the worker before a request: the request, the setting ANALYTICS_ALLOWED,
\* the status of the answer and whether PostHog was sent the event
NoRequest ==
    [made |-> FALSE, method |-> "GET", allowed |-> FALSE, body |-> NotJson,
     status |-> 0, forwarded |-> FALSE]

\* fetch of the worker
WorkerFetch(method, allowed, body, posthogOk) ==
    LET answer(status, forwarded) ==
            [made |-> TRUE, method |-> method, allowed |-> allowed,
             body |-> body, status |-> status, forwarded |-> forwarded]
    IN  IF method = "OPTIONS" THEN answer(200, FALSE)
        ELSE IF method # "POST" THEN answer(405, FALSE)
        ELSE IF ~allowed THEN answer(200, FALSE)
        ELSE IF ~IsValidPayload(body) THEN answer(400, FALSE)
        ELSE IF ~posthogOk THEN answer(400, TRUE)
        ELSE answer(200, TRUE)

VARIABLES
    ping_results,   \* table ping_results, oldest row first
    ping_stats,     \* table ping_stats, the row with id 1
    settings,       \* table settings: rows of key and value, key being PRIMARY KEY
    pc,             \* "off": no process; "running": in the ping loop
    target,         \* Pinger.target
    queryLimit,     \* DatabaseService.queryLimit
    stats,          \* Pinger.stats; stats.latencies is Pinger.latencyHistory
    shown,          \* ScreenManager.stats, the snapshot last handed over
    rowsAtStart,    \* history: number of rows when this run loaded its stats
    lastShown,      \* history: the last snapshot any run handed over since the reset
    summary,        \* the summary logged by the last iteration of the loop, if any
    exit,           \* how the last process ended: exit code and cause
    teardown,       \* how often stop() destroyed the screen and closed the store
                    \* in the current process, or else in the last one
    spawned,        \* the ping process of the probe looked at on its own
    probe,          \* what ping() settled with for it
    argTarget,      \* history: the [target] argument of the running process,
                    \* NoTarget when none was given or no process runs
    lastExplicit,   \* history: the argument of the most recent run that was
                    \* given one and came to resolve its target, since the reset
    loop,           \* where start() stands in its loop, the ping processes in
                    \* flight, the probes begun, the detached version check,
                    \* whether saveResult has thrown in this process, how often
                    \* it has cleaned the logs and looked for a new version,
                    \* and how often it has called saveResult on a closed store
    dbFile,         \* whether the file ping_history.sqlite exists; the variables
                    \* of the store hold what a new store would while it does not
    old_db,         \* the backups in the folder old_db, oldest first; followed
                    \* where cleanDatabase is taken step by step
    analytics,      \* the consent file and the requests of sendAnalytics, looked
                    \* at on its own
    worker          \* a request to the analytics worker and its answer, looked
                    \* at on its own

probeVars == <<spawned, probe>>
vars == <<ping_results, ping_stats, settings, pc, target, queryLimit, stats,
          shown, rowsAtStart, lastShown, summary, exit, teardown, spawned, probe,
          argTarget, lastExplicit, loop, dbFile, old_db, analytics, worker>>

\* what the monitor leaves alone once it runs
aside == <<old_db, analytics, worker>>

durable == <<ping_results, ping_stats, settings>>

NoSnapshot == [valid |-> FALSE, target |-> NoTarget, snap |-> EmptyStats]

Init ==
    /\ ping_results = <<>>
    /\ ping_stats = InitPingStats
    /\ settings = {}
    /\ pc = "off"
    /\ target = NoTarget
    /\ queryLimit = 0
    /\ stats = EmptyStats
    /\ shown = EmptyStats
    /\ rowsAtStart = 0
    /\ lastShown = NoSnapshot
    /\ summary = NoSummary
    /\ exit = NoExit
    /\ teardown = NoTeardown
    /\ spawned = NoSpawn
    /\ probe = NotProbed
    /\ argTarget = NoTarget
    /\ lastExplicit = NoTarget
    /\ loop = NoLoop
    /\ dbFile = FALSE
    /\ old_db = <<>>
    /\ analytics = NoAnalytics
    /\ worker = NoRequest

\* DatabaseService.getLastTarget: SELECT value ... WHERE key = 'last_target',
\* the first row if any; result?.value || null
GetLastTarget(table) ==
    LET found == {r \in table : r.key = "last_target"}
    IN  IF found = {} THEN NoTarget ELSE (CHOOSE r \in found : TRUE).value

\* faulty variant: INSERT OR IGNORE, the row already there is kept
SaveTargetOrIgnore(table, t) ==
    IF \E r \in table : r.key = "last_target" THEN table
    ELSE table \cup {[key |-> "last_target", value |-> t]}

\* DatabaseService.saveTarget: INSERT OR REPLACE on the primary key
SaveTarget(table, t) ==
    {r \in table : r.key # "last_target"} \cup {[key |-> "last_target", value |-> t]}

\* the file as the variables describe it
CurrentFile ==
    IF dbFile
    THEN [tables |-> AllTables, settings |-> settings, ping_results |-> ping_results,
          ping_stats |-> {[id |-> 1, row |-> ping_stats]}]
    ELSE NoFile

\* main: the file as --fresh leaves it for the run that follows
StoreAfter(fresh) == IF fresh THEN NoFile ELSE CurrentFile

\* faulty variant: lastTarget || target
SelectedTargetPrefersLast(t, last) == IF last # NoTarget THEN last ELSE t

\* initializeTarget: target || lastTarget
SelectedTarget(t, last) == IF t # NoTarget THEN t ELSE last

\* main from its DatabaseService on, the constructor of Pinger with a
\* DatabaseService of its own, and start() up to the loop, the validation probe
\* succeeding
Run(file, t, loadCount, fresh) ==
    LET db == Opened(Opened(file).file)
        selected == SelectedTarget(t, GetLastTarget(db.settings))
    IN  /\ selected # NoTarget
        /\ ping_results' = AfterValidation(db.rows, FALSE)
        /\ ping_stats' = db.ps
        /\ settings' = SaveTarget(db.settings, selected)
        /\ target' = selected
        /\ queryLimit' = loadCount
        /\ stats' = LoadHistoricalStats(db.rows, db.ps, loadCount)
        /\ shown' = EmptyStats
        /\ rowsAtStart' = Len(db.rows)
        /\ lastShown' = IF fresh THEN NoSnapshot ELSE lastShown
        /\ summary' = NoSummary
        /\ exit' = NoExit
        /\ teardown' = NoTeardown
        /\ pc' = "running"
        /\ argTarget' = t
        /\ lastExplicit' = IF t # NoTarget THEN t ELSE lastExplicit
        /\ loop' = LoopTop
        /\ dbFile' = TRUE
        /\ UNCHANGED <<probeVars, aside>>

\* a run of the program that gets as far as its loop
Start(t, loadCount, fresh) == pc = "off" /\ Run(StoreAfter(fresh), t, loadCount, fresh)

\* the same, the validation probe failing: stop({sendHelp}) and exit
StartUnreachable(t, fresh) ==
    LET db == Opened(Opened(StoreAfter(fresh)).file)
        selected == SelectedTarget(t, GetLastTarget(db.settings))
    IN  /\ pc = "off"
        /\ selected # NoTarget
        /\ ping_results' = AfterValidation(db.rows, TRUE)
        /\ ping_stats' = db.ps
        /\ settings' = SaveTarget(db.settings, selected)
        /\ lastShown' = IF fresh THEN NoSnapshot ELSE lastShown
        /\ exit' = Exit(ValidationFailureExitCode, "validation")
        /\ teardown' = StopTeardown(NoTeardown)
        /\ lastExplicit' = IF t # NoTarget THEN t ELSE lastExplicit
        /\ dbFile' = TRUE
        /\ UNCHANGED <<pc, target, queryLimit, stats, shown, rowsAtStart, summary,
                       spawned, probe, aside, argTarget, loop>>

\* main with --fresh and either --exit, the file staying removed, or no target
\* to fall back on, the DatabaseService of main having made a new file
FreshExit ==
    /\ pc = "off"
    /\ \E withExit \in BOOLEAN :
          LET db == IF withExit THEN Absent ELSE Opened(StoreAfter(TRUE))
          IN  /\ ping_results' = db.rows
              /\ ping_stats' = db.ps
              /\ settings' = db.settings
              /\ dbFile' = ~withExit
    /\ lastShown' = NoSnapshot
    /\ exit' = Exit(0, "fresh")
    /\ teardown' = NoTeardown
    /\ lastExplicit' = NoTarget
    /\ UNCHANGED <<pc, target, queryLimit, stats, shown, rowsAtStart, summary,
                   spawned, probe, aside, argTarget, loop>>

\* main without --fresh, with no argument and no last target in the store:
\* printHelpAndExit before any Pinger is constructed
StartNoTarget ==
    LET db == Opened(StoreAfter(FALSE))
    IN  /\ pc = "off"
        /\ SelectedTarget(NoTarget, GetLastTarget(db.settings)) = NoTarget
        /\ ping_results' = db.rows
        /\ ping_stats' = db.ps
        /\ settings' = db.settings
        /\ dbFile' = TRUE
        /\ exit' = Exit(0, "no target")
        /\ teardown' = NoTeardown
        /\ UNCHANGED <<pc, target, queryLimit, stats, shown, rowsAtStart, lastShown,
                       summary, spawned, probe, aside, argTarget, lastExplicit, loop>>

\* the body of the loop once the probe has settled: updateStats with its
\* saveResult, updateDisplay and the summary
Iteration(latency, isSuccessful) ==
    /\ stats' = UpdateStats(stats, stats.latencies, queryLimit, latency, isSuccessful)
    /\ ping_results' = InsertResult(ping_results, latency, isSuccessful)
    /\ ping_stats' = UpdatePingStats(ping_stats, latency, isSuccessful)
    /\ shown' = stats'
    /\ lastShown' = [valid |-> TRUE, target |-> target, snap |-> stats']
    /\ summary' = IF stats'.totalPings % LogEvery = 0
                   THEN Summary(stats'.latencies) ELSE NoSummary

\* faulty variant: a failed probe is tried again within the iteration, and the
\* second failure is recorded as well
TickRetries(latency, isSuccessful) ==
    LET once == UpdateStats(stats, stats.latencies, queryLimit, latency, isSuccessful)
    IN
    /\ pc = "running"
    /\ Len(ping_results) < MaxRows
    /\ stats' = IF isSuccessful THEN once
                 ELSE UpdateStats(once, once.latencies, queryLimit, latency, isSuccessful)
    /\ ping_results' = IF isSuccessful
                        THEN InsertResult(ping_results, latency, isSuccessful)
                        ELSE InsertResult(InsertResult(ping_results, latency, isSuccessful),
                                          latency, isSuccessful)
    /\ ping_stats' = UpdatePingStats(ping_stats, latency, isSuccessful)
    /\ shown' = stats'
    /\ lastShown' = [valid |-> TRUE, target |-> target, snap |-> stats']
    /\ summary' = IF stats'.totalPings % LogEvery = 0
                   THEN Summary(stats'.latencies) ELSE NoSummary
    /\ UNCHANGED <<settings, pc, target, queryLimit, rowsAtStart, exit, teardown,
                   spawned, probe, dbFile, aside, argTarget, lastExplicit, loop>>

\* one iteration of the ping loop: probe, updateStats, updateDisplay
Tick(latency, isSuccessful) ==
    /\ pc = "running"
    /\ Len(ping_results) < MaxRows
    /\ Iteration(latency, isSuccessful)
    /\ UNCHANGED <<settings, pc, target, queryLimit, rowsAtStart, exit, teardown,
                   spawned, probe, dbFile, aside, argTarget, lastExplicit, loop>>

\* SIGINT / SIGTERM: stop({force: true}), which ends in process.exit(0)
Stop ==
    /\ pc = "running"
    /\ pc' = "off"
    /\ target' = NoTarget
    /\ argTarget' = NoTarget
    /\ loop' = NoLoop
    /\ queryLimit' = 0
    /\ stats' = EmptyStats
    /\ shown' = EmptyStats
    /\ rowsAtStart' = 0
    /\ summary' = NoSummary
    /\ exit' = Exit(StopExitCode(StopOptions(FALSE, TRUE)), "signal")
    /\ teardown' = StopTeardown(teardown)
    /\ UNCHANGED <<ping_results, ping_stats, settings, lastShown, spawned, probe, dbFile, aside,
                   lastExplicit>>

\* a successful probe whose saveResult is cut between its two statements by the
\* death of the process (kill, power loss): the INSERT is committed, the
\* UPDATE of ping_stats never runs
TickInterrupted(latency) ==
    /\ pc = "running"
    /\ Len(ping_results) < MaxRows
    /\ ping_results' = InsertResult(ping_results, latency, TRUE)
    /\ pc' = "off"
    /\ target' = NoTarget
    /\ argTarget' = NoTarget
    /\ loop' = NoLoop
    /\ queryLimit' = 0
    /\ stats' = EmptyStats
    /\ shown' = EmptyStats
    /\ rowsAtStart' = 0
    /\ summary' = NoSummary
    /\ exit' = Exit(NULL, "killed")
    /\ teardown' = NoTeardown
    /\ UNCHANGED <<ping_stats, settings, lastShown, spawned, probe, dbFile, aside, lastExplicit>>

Next ==
    \/ \E t \in Targets \cup {NoTarget}, lc \in LoadCounts, fresh \in BOOLEAN :
          Start(t, lc, fresh)
    \/ \E t \in Targets \cup {NoTarget}, fresh \in BOOLEAN : StartUnreachable(t, fresh)
    \/ FreshExit
    \/ StartNoTarget
    \/ \E l \in Latencies : Tick(l, TRUE)
    \/ Tick(NULL, FALSE)
    \/ Stop

Spec == Init /\ [][Next]_vars

NextCrash ==
    \/ Next
    \/ \E l \in Latencies : TickInterrupted(l)

\* the same program, the process being allowed to die inside saveResult
SpecCrash == Init /\ [][NextCrash]_vars

\* stop() called on the Pinger by its owner, with the default options: it
\* returns to the caller. A call on a Pinger already stopped runs the same
\* statements again; what blessed and bun:sqlite do on a second destroy() or
\* close() is not in the source, so each may return or throw, and a throw is
\* caught by stop and ends in process.exit(1)
StopCall(destroyThrows, closeThrows) ==
    /\ pc \in {"running", "stopped"}
    /\ teardown.screenDestroy < MaxStopCalls
    /\ (pc = "running") => (~destroyThrows /\ ~closeThrows)
    /\ teardown' = IF destroyThrows
                    THEN [teardown EXCEPT !.screenDestroy = @ + 1]
                    ELSE StopTeardown(teardown)
    /\ IF destroyThrows \/ closeThrows
       THEN /\ pc' = "off"
            /\ exit' = Exit(1, "shutdown error")
            /\ target' = NoTarget
            /\ argTarget' = NoTarget
            /\ loop' = NoLoop
            /\ queryLimit' = 0
            /\ stats' = EmptyStats
            /\ shown' = EmptyStats
            /\ rowsAtStart' = 0
            /\ summary' = NoSummary
       ELSE /\ pc' = "stopped"
            /\ UNCHANGED <<exit, target, queryLimit, stats, shown, rowsAtStart,
                           summary, argTarget, loop>>
    /\ UNCHANGED <<ping_results, ping_stats, settings, lastShown, spawned, probe, dbFile, aside,
                   lastExplicit>>

\* the loop of a stopped Pinger finds isRunning false, start() returns and the
\* process ends
LoopEnds ==
    /\ pc = "stopped"
    /\ pc' = "off"
    /\ exit' = Exit(0, "returned")
    /\ target' = NoTarget
    /\ argTarget' = NoTarget
    /\ loop' = NoLoop
    /\ queryLimit' = 0
    /\ stats' = EmptyStats
    /\ shown' = EmptyStats
    /\ rowsAtStart' = 0
    /\ summary' = NoSummary
    /\ UNCHANGED <<ping_results, ping_stats, settings, lastShown, teardown,
                   spawned, probe, dbFile, aside, lastExplicit>>

NextStopCalls ==
    \/ Next
    \/ \E destroyThrows \in BOOLEAN, closeThrows \in BOOLEAN :
          StopCall(destroyThrows, closeThrows)
    \/ LoopEnds

\* the same program, its owner calling stop() as often as it likes
SpecStopCalls == Init /\ [][NextStopCalls]_vars

\* one call of ping() looked at on its own: the process is spawned for the
\* platform, writes its output, and the promise settles
Probe(platform, t, stdout, stderr) ==
    /\ ~probe.ran
    /\ spawned' = [platform |-> platform, target |-> t, stdout |-> stdout,
                   stderr |-> stderr]
    /\ probe' = [ran |-> TRUE, result |-> Ping(platform, t, stdout)]
    /\ UNCHANGED <<ping_results, ping_stats, settings, pc, target, queryLimit,
                   stats, shown, rowsAtStart, lastShown, summary, exit, teardown,
                   argTarget, lastExplicit, loop, dbFile, aside>>

NextPing ==
    \E platform \in Platforms, t \in {"a", NoTarget}, stdout \in Outputs,
       stderr \in Stderrs : Probe(platform, t, stdout, stderr)

\* ping() applied to every output within the bounds
SpecPing == Init /\ [][NextPing]_vars

\* ---------------------------------------------- the loop, step by step
\* the process ends: what it held in memory is gone
ProcessEnds ==
    /\ pc' = "off"
    /\ target' = NoTarget
    /\ queryLimit' = 0
    /\ stats' = EmptyStats
    /\ shown' = EmptyStats
    /\ rowsAtStart' = 0
    /\ summary' = NoSummary
    /\ argTarget' = NoTarget

\* faulty variant: ping() is not awaited, the loop goes round at once
ProbeBeginsUnawaited ==
    /\ pc = "running"
    /\ loop.at = "top"
    /\ Len(ping_results) < MaxRows
    /\ loop' = [loop EXCEPT !.inFlight = @ + 1, !.begun = @ + 1]
    /\ UNCHANGED <<ping_results, ping_stats, settings, pc, target, queryLimit,
                   stats, shown, rowsAtStart, lastShown, summary, exit, teardown,
                   spawned, probe, dbFile, aside, argTarget, lastExplicit>>

\* while (isRunning) { await ping(target): the ping process is spawned and
\* start() waits for it
ProbeBegins ==
    /\ pc = "running"
    /\ loop.at = "top"
    /\ Len(ping_results) < MaxRows
    /\ loop' = [loop EXCEPT !.at = "probing", !.inFlight = @ + 1, !.begun = @ + 1]
    /\ UNCHANGED <<ping_results, ping_stats, settings, pc, target, queryLimit,
                   stats, shown, rowsAtStart, lastShown, summary, exit, teardown,
                   spawned, probe, dbFile, aside, argTarget, lastExplicit>>

\* the probe settles and the rest of the loop body runs, up to the wait
ProbeSettles(latency, isSuccessful) ==
    /\ pc = "running"
    /\ loop.inFlight > 0
    /\ Iteration(latency, isSuccessful)
    /\ loop' = [loop EXCEPT !.at = "waiting", !.inFlight = @ - 1]
    /\ UNCHANGED <<settings, pc, target, queryLimit, rowsAtStart, exit, teardown,
                   spawned, probe, dbFile, aside, argTarget, lastExplicit>>

\* the one-second timer of the loop fires
WaitEnds ==
    /\ pc = "running"
    /\ loop.at = "waiting"
    /\ loop' = [loop EXCEPT !.at = "top"]
    /\ UNCHANGED <<ping_results, ping_stats, settings, pc, target, queryLimit,
                   stats, shown, rowsAtStart, lastShown, summary, exit, teardown,
                   spawned, probe, dbFile, aside, argTarget, lastExplicit>>

\* escape, q or C-c on the screen: ScreenManager.destroy() and
\* process.exit(0); Pinger.stop is not called
QuitKey ==
    /\ pc = "running"
    /\ ProcessEnds
    /\ loop' = NoLoop
    /\ exit' = Exit(0, "quit key")
    /\ teardown' = [teardown EXCEPT !.screenDestroy = @ + 1]
    /\ UNCHANGED <<ping_results, ping_stats, settings, lastShown, spawned, probe, dbFile, aside,
                   lastExplicit>>

\* getVersion().then(...) settles. Nothing catches a rejection, so it reaches
\* the unhandledRejection handler: stop() and process.exit(1)
VersionCheckSettles(rejects) ==
    /\ pc = "running"
    /\ loop.versionCheck = "pending"
    /\ IF rejects
       THEN /\ ProcessEnds
            /\ loop' = [NoLoop EXCEPT !.versionCheck = "rejected"]
            /\ exit' = Exit(FatalExitCode, "unhandled rejection")
            /\ teardown' = StopTeardown(teardown)
       ELSE /\ loop' = [loop EXCEPT !.versionCheck = "resolved"]
            /\ UNCHANGED <<pc, target, queryLimit, stats, shown, rowsAtStart,
                           summary, argTarget, exit, teardown>>
    /\ UNCHANGED <<ping_results, ping_stats, settings, lastShown, spawned, probe, dbFile, aside,
                   lastExplicit>>

NextLoop ==
    \/ \E lc \in LoadCounts, fresh \in BOOLEAN : Start("a", lc, fresh)
    \/ StartUnreachable("a", FALSE)
    \/ ProbeBegins
    \/ \E l \in Latencies : ProbeSettles(l, TRUE)
    \/ ProbeSettles(NULL, FALSE)
    \/ WaitEnds
    \/ Stop
    \/ QuitKey
    \/ \E rejects \in BOOLEAN : VersionCheckSettles(rejects)

\* the program with its loop taken step by step, so that signals, keys and the
\* version check fall between the steps
SpecLoop == Init /\ [][NextLoop]_vars

\* the catch of start(): logger.error, stop({msg}) and process.exit(1)
FatalError(cause) ==
    /\ ProcessEnds
    /\ exit' = Exit(FatalExitCode, cause)
    /\ teardown' = StopTeardown(teardown)

\* the probe settles and db.saveResult throws in updateStats, at its INSERT
\* or, for a successful probe, at its UPDATE. updateStats has counted the
\* probe by then. After a successful probe the throw lands in the catch of
\* the loop body, which takes it for a failed probe and calls
\* updateStats(null, false): the probe is counted a second time, as failed,
\* and saveResult is called again. If that call throws as well, or if the
\* probe had failed and the throw came out of the catch itself, the error
\* reaches the catch of start(). The first write of a process to throw is
\* followed
ProbeSettlesWriteFails(latency, isSuccessful, statement, againThrows) ==
    LET counted == UpdateStats(stats, stats.latencies, queryLimit, latency, isSuccessful)
        rows    == IF statement = "UPDATE"
                   THEN InsertResult(ping_results, latency, isSuccessful)
                   ELSE ping_results
        again   == UpdateStats(counted, counted.latencies, queryLimit, NULL, FALSE)
    IN  /\ pc = "running"
        /\ loop.inFlight > 0
        /\ ~loop.writeError
        /\ statement = "UPDATE" => isSuccessful
        /\ ~isSuccessful => againThrows
        /\ ping_stats' = ping_stats
        /\ IF againThrows
           THEN /\ ping_results' = rows
                /\ loop' = [NoLoop EXCEPT !.writeError = TRUE]
                /\ FatalError("fatal")
                /\ UNCHANGED lastShown
           ELSE /\ ping_results' = InsertResult(rows, NULL, FALSE)
                /\ stats' = again
                /\ shown' = again
                /\ lastShown' = [valid |-> TRUE, target |-> target, snap |-> again]
                /\ summary' = IF again.totalPings % LogEvery = 0
                               THEN Summary(again.latencies) ELSE NoSummary
                /\ loop' = [loop EXCEPT !.at = "waiting", !.inFlight = @ - 1,
                                        !.writeError = TRUE]
                /\ UNCHANGED <<pc, target, queryLimit, rowsAtStart, exit, teardown,
                               argTarget>>
        /\ UNCHANGED <<settings, spawned, probe, dbFile, aside, lastExplicit>>

\* the probe settles, updateStats records it, and screen.updateDisplay (or
\* the logger) throws: the catch of start()
DisplayThrows(latency, isSuccessful) ==
    /\ pc = "running"
    /\ loop.inFlight > 0
    /\ ping_results' = InsertResult(ping_results, latency, isSuccessful)
    /\ ping_stats' = UpdatePingStats(ping_stats, latency, isSuccessful)
    /\ loop' = NoLoop
    /\ FatalError("fatal")
    /\ UNCHANGED <<settings, lastShown, spawned, probe, dbFile, aside, lastExplicit>>

\* an exception nobody catches, thrown outside start() (a key or timer
\* callback): the uncaughtException handler, stop() and process.exit(1)
UncaughtException ==
    /\ pc = "running"
    /\ loop' = NoLoop
    /\ FatalError("uncaught exception")
    /\ UNCHANGED <<ping_results, ping_stats, settings, lastShown, spawned, probe, dbFile, aside,
                   lastExplicit>>

NextLoopFaults ==
    \/ \E lc \in LoadCounts : Start("a", lc, TRUE)
    \/ ProbeBegins
    \/ \E l \in Latencies : ProbeSettles(l, TRUE)
    \/ ProbeSettles(NULL, FALSE)
    \/ WaitEnds
    \/ \E rejects \in BOOLEAN : VersionCheckSettles(rejects)
    \/ \E l \in Latencies, statement \in {"INSERT", "UPDATE"}, againThrows \in BOOLEAN :
          ProbeSettlesWriteFails(l, TRUE, statement, againThrows)
    \/ ProbeSettlesWriteFails(NULL, FALSE, "INSERT", TRUE)
    \/ \E l \in Latencies : DisplayThrows(l, TRUE)
    \/ DisplayThrows(NULL, FALSE)
    \/ UncaughtException

\* the loop step by step, with store writes and display updates that may
\* throw; every run is one of target "a" with --fresh, and ends by a fault
SpecLoopFaults == Init /\ [][NextLoopFaults]_vars

\* ------------------------------------- the loop body, statement by statement
\* updateStats(latency, isSuccessful) with its db.saveResult, the first
\* statement of the loop body after the probe has settled; the display has not
\* been handed the new snapshot yet
StatsUpdated(latency, isSuccessful) ==
    /\ pc = "running"
    /\ loop.at = "probing"
    /\ loop.inFlight > 0
    /\ stats' = UpdateStats(stats, stats.latencies, queryLimit, latency, isSuccessful)
    /\ ping_results' = InsertResult(ping_results, latency, isSuccessful)
    /\ ping_stats' = UpdatePingStats(ping_stats, latency, isSuccessful)
    /\ loop' = [loop EXCEPT !.at = "recorded", !.inFlight = @ - 1]
    /\ UNCHANGED <<settings, pc, target, queryLimit, shown, rowsAtStart, lastShown,
                   summary, exit, teardown, spawned, probe, dbFile, aside, argTarget, lastExplicit>>

\* screen.updateDisplay({...this.stats, latencies: this.latencyHistory}) and
\* the summary, up to the wait
DisplayUpdated ==
    /\ pc = "running"
    /\ loop.at = "recorded"
    /\ shown' = stats
    /\ lastShown' = [valid |-> TRUE, target |-> target, snap |-> stats]
    /\ summary' = IF stats.totalPings % LogEvery = 0
                   THEN Summary(stats.latencies) ELSE NoSummary
    /\ loop' = [loop EXCEPT !.at = "waiting"]
    /\ UNCHANGED <<ping_results, ping_stats, settings, pc, target, queryLimit,
                   stats, rowsAtStart, exit, teardown, spawned, probe, dbFile, aside, argTarget,
                   lastExplicit>>

\* a signal handler runs between two turns of the event loop, never between
\* two statements of the loop body
SignalBetweenTurns == loop.at # "recorded" /\ Stop

\* ScreenManager.stats as a render reads it. The object handed over is
\* {...this.stats, latencies: this.latencyHistory}: the counters and the
\* reference to the stats object are copied by the spread, latencies is the
\* array of the monitor itself, which updateStats changes in place by push and
\* shift. The variable shown keeps the values as they were at the hand-over
DisplayStats ==
    IF shown = EmptyStats THEN shown ELSE [shown EXCEPT !.latencies = stats.latencies]

NextRender ==
    \/ \E lc \in LoadCounts, fresh \in BOOLEAN : Start("a", lc, fresh)
    \/ ProbeBegins
    \/ \E l \in Latencies : StatsUpdated(l, TRUE)
    \/ StatsUpdated(NULL, FALSE)
    \/ DisplayUpdated
    \/ WaitEnds
    \/ SignalBetweenTurns

\* the program with the loop body taken statement by statement
SpecRender == Init /\ [][NextRender]_vars

\* ------------------------------------- stop() with a probe in flight
\* stop() has returned to its caller with isRunning false and the store
\* closed, while start() was waiting for its probe. The probe settles and the
\* loop body runs as ever: updateStats counts it and calls db.saveResult on
\* the closed store, which throws. After a successful probe the catch of the
\* loop body calls updateStats(null, false) and with it saveResult once more;
\* the error then reaches the catch of start(), which calls stop() again and
\* exits with 1
ProbeSettlesStopped(latency, isSuccessful, destroyThrows) ==
    /\ pc = "stopped"
    /\ loop.inFlight > 0
    /\ teardown.dbClose >= 1
    /\ ProcessEnds
    /\ loop' = [NoLoop EXCEPT !.closedWrites = IF isSuccessful THEN 2 ELSE 1]
    /\ exit' = Exit(1, "fatal")
    /\ teardown' = IF destroyThrows
                    THEN [teardown EXCEPT !.screenDestroy = @ + 1]
                    ELSE StopTeardown(teardown)
    /\ UNCHANGED <<ping_results, ping_stats, settings, lastShown, spawned, probe,
                   lastExplicit, dbFile, aside>>

\* the loop of a stopped Pinger comes to its test with no probe in flight
LoopEndsIdle == loop.inFlight = 0 /\ LoopEnds

NextStopInFlight ==
    \/ \E lc \in LoadCounts, fresh \in BOOLEAN : Start("a", lc, fresh)
    \/ ProbeBegins
    \/ \E l \in Latencies : ProbeSettles(l, TRUE)
    \/ ProbeSettles(NULL, FALSE)
    \/ WaitEnds
    \/ \E destroyThrows \in BOOLEAN, closeThrows \in BOOLEAN :
          StopCall(destroyThrows, closeThrows)
    \/ \E l \in Latencies, destroyThrows \in BOOLEAN :
          ProbeSettlesStopped(l, TRUE, destroyThrows)
    \/ \E destroyThrows \in BOOLEAN : ProbeSettlesStopped(NULL, FALSE, destroyThrows)
    \/ LoopEndsIdle
    \/ Stop
    \/ UncaughtException
    \/ \E rejects \in BOOLEAN : VersionCheckSettles(rejects)

\* the loop step by step, with every way of stopping it: the signals, the two
\* error handlers, and stop() called by the owner of the Pinger
SpecStopInFlight == Init /\ [][NextStopInFlight]_vars

\* ------------------------------------------ the reset, step by step
\* cleanDatabase, the file not being there: "No database found", return
CleanNoDatabase ==
    /\ pc = "off"
    /\ ~dbFile
    /\ pc' = "cleaned"
    /\ exit' = NoExit
    /\ teardown' = NoTeardown
    /\ UNCHANGED <<ping_results, ping_stats, settings, target, queryLimit, stats,
                   shown, rowsAtStart, lastShown, summary, spawned, probe,
                   argTarget, lastExplicit, loop, dbFile, aside>>

\* cleanDatabase up to copyFileSync(dbPath, backupPath): the folder is made if
\* need be and the file copied under the name of the present instant
CleanCopies ==
    /\ pc = "off"
    /\ dbFile
    /\ Len(old_db) < MaxBackups
    /\ old_db' = Append(old_db, CurrentFile)
    /\ pc' = "copied"
    /\ exit' = NoExit
    /\ teardown' = NoTeardown
    /\ UNCHANGED <<ping_results, ping_stats, settings, target, queryLimit, stats,
                   shown, rowsAtStart, lastShown, summary, spawned, probe,
                   argTarget, lastExplicit, loop, dbFile, analytics, worker>>

\* unlinkSync(dbPath)
CleanUnlinks ==
    /\ pc = "copied"
    /\ dbFile' = FALSE
    /\ ping_results' = Absent.rows
    /\ ping_stats' = Absent.ps
    /\ settings' = Absent.settings
    /\ lastShown' = NoSnapshot
    /\ lastExplicit' = NoTarget
    /\ pc' = "cleaned"
    /\ UNCHANGED <<target, queryLimit, stats, shown, rowsAtStart, summary, exit,
                   teardown, spawned, probe, argTarget, loop, aside>>

\* the process dies between the copy and the removal
CleanInterrupted ==
    /\ pc = "copied"
    /\ pc' = "off"
    /\ exit' = Exit(NULL, "killed")
    /\ UNCHANGED <<ping_results, ping_stats, settings, target, queryLimit, stats,
                   shown, rowsAtStart, lastShown, summary, teardown, spawned, probe,
                   argTarget, lastExplicit, loop, dbFile, aside>>

\* main after cleanDatabase, with --exit: process.exit(0)
CleanedExit ==
    /\ pc = "cleaned"
    /\ pc' = "off"
    /\ exit' = Exit(0, "fresh")
    /\ UNCHANGED <<ping_results, ping_stats, settings, target, queryLimit, stats,
                   shown, rowsAtStart, lastShown, summary, teardown, spawned, probe,
                   argTarget, lastExplicit, loop, dbFile, aside>>

\* main after cleanDatabase, without --exit and with a target to probe
StartCleaned(t, loadCount) == pc = "cleaned" /\ Run(CurrentFile, t, loadCount, TRUE)

\* main after cleanDatabase, without --exit and without a target: its
\* DatabaseService makes the file anew and finds no last target in it
CleanedNoTarget ==
    LET db == Opened(CurrentFile)
    IN  /\ pc = "cleaned"
        /\ SelectedTarget(NoTarget, GetLastTarget(db.settings)) = NoTarget
        /\ ping_results' = db.rows
        /\ ping_stats' = db.ps
        /\ settings' = db.settings
        /\ dbFile' = TRUE
        /\ pc' = "off"
        /\ exit' = Exit(0, "no target")
        /\ UNCHANGED <<target, queryLimit, stats, shown, rowsAtStart, lastShown,
                       summary, teardown, spawned, probe, argTarget, lastExplicit,
                       loop, aside>>

\* an iteration of the loop while few rows are there
TickFew(latency, isSuccessful) ==
    Len(ping_results) < MaxResetRows /\ Tick(latency, isSuccessful)

NextReset ==
    \/ CleanNoDatabase
    \/ CleanCopies
    \/ CleanUnlinks
    \/ CleanInterrupted
    \/ CleanedExit
    \/ \E t \in Targets, lc \in LoadCounts : StartCleaned(t, lc)
    \/ CleanedNoTarget
    \/ \E t \in Targets \cup {NoTarget}, lc \in LoadCounts : Start(t, lc, FALSE)
    \/ StartNoTarget
    \/ TickFew(1, TRUE)
    \/ TickFew(NULL, FALSE)
    \/ Stop

\* the program with the files of its working directory, --fresh being taken
\* one file operation at a time
SpecReset == Init /\ [][NextReset]_vars

\* ------------------------------------------------------------ telemetry
monitor == <<ping_results, ping_stats, settings, pc, target, queryLimit, stats,
             shown, rowsAtStart, lastShown, summary, exit, teardown, spawned,
             probe, argTarget, lastExplicit, loop, dbFile, old_db>>

\* writeAnalyticsConsent: writeFileSync(ANALYTICS_FILE, consent.toString())
WriteAnalyticsConsent(consent) ==
    analytics' = [analytics EXCEPT
                     !.file = ConsentFile(TRUE, BooleanToString(consent))]

\* askAnalyticsConsent: the answer, lower-cased, is "y" or it is a refusal
AskAnalyticsConsent(answer) ==
    /\ WriteAnalyticsConsent(ToLowerCase(answer) = <<"y">>)
    /\ UNCHANGED <<monitor, worker>>

\* "You can change this setting later by editing 'analytics-enabled.txt'"
UserEditsFile(readable, content) ==
    /\ analytics' = [analytics EXCEPT !.file = ConsentFile(readable, content)]
    /\ UNCHANGED <<monitor, worker>>

UserRemovesFile ==
    /\ analytics.file.exists
    /\ analytics' = [analytics EXCEPT !.file = NoConsentFile]
    /\ UNCHANGED <<monitor, worker>>

\* sendAnalytics, from its call to the settling of its promise
SendAnalytics(st, duration, fetchRejects) ==
    /\ analytics.calls < MaxSends
    /\ LET file == analytics.file
           called == [analytics EXCEPT !.calls = @ + 1]
       IN  IF file.exists /\ ~file.readable
           THEN \* readFileSync throws outside the try
                analytics' = [called EXCEPT !.propagated = TRUE]
           ELSE IF CheckAnalyticsConsent(file) # "consent"
           THEN analytics' = [called EXCEPT !.propagated = FALSE]
           ELSE analytics' =
                    [called EXCEPT
                        !.posts = @ + 1,
                        !.last = AnalyticsBody(st, duration),
                        !.logged = IF fetchRejects THEN @ + 1 ELSE @,
                        !.propagated = FALSE]
    /\ UNCHANGED <<monitor, worker>>

NextAnalytics ==
    \/ \E answer \in Answers : AskAnalyticsConsent(answer)
    \/ \E readable \in BOOLEAN, content \in FileContents :
          UserEditsFile(readable, content)
    \/ UserRemovesFile
    \/ \E st \in AnalyticsStats, duration \in Durations,
          fetchRejects \in BOOLEAN : SendAnalytics(st, duration, fetchRejects)

\* the consent file and sendAnalytics on their own
SpecAnalytics == Init /\ [][NextAnalytics]_vars

\* a request reaches the worker and is answered
RequestArrives(method, allowed, body, posthogOk) ==
    /\ ~worker.made
    /\ worker' = WorkerFetch(method, allowed, body, posthogOk)
    /\ UNCHANGED <<monitor, analytics>>

\* the answer is sent; the worker keeps nothing between two requests
RequestAnswered ==
    /\ worker.made
    /\ worker' = NoRequest
    /\ UNCHANGED <<monitor, analytics>>

NextWorker ==
    \/ \E method \in Methods, allowed \in BOOLEAN, body \in Payloads,
          posthogOk \in BOOLEAN : RequestArrives(method, allowed, body, posthogOk)
    \/ RequestAnswered

\* the analytics worker on its own
SpecWorker == Init /\ [][NextWorker]_vars

\* ------------------------------------------------------------ the claims
\* the rows a run counts: all but those its start left out under LIMIT queryLimit
CutOff == MathMax(0, rowsAtStart - queryLimit)
Counted == SubSeq(ping_results, CutOff + 1, Len(ping_results))
NumOk(rows) == Len(SelectSeq(rows, IsOk))
NumNotOk(rows) == Len(SelectSeq(rows, IsNotOk))
TickedThisRun == pc = "running" /\ Len(ping_results) > rowsAtStart

SumsUp(s) == ToNumber(s.successful) + ToNumber(s.failed) = s.totalPings

\* C1: in the statistics of the running monitor and in every snapshot handed to
\* the display, successful + failed (as JavaScript adds them) equals totalPings
C1_CountsSumUp == SumsUp(stats) /\ SumsUp(shown) /\ SumsUp(lastShown.snap)

\* a snapshot handed over in a run that loaded rows and then saw both outcomes
C1_Witness ==
    /\ TickedThisRun
    /\ rowsAtStart >= 1
    /\ shown.totalPings >= 3
    /\ ToNumber(shown.successful) >= 1
    /\ ToNumber(shown.failed) >= 1

\* C2 as stated: the monitor reports totalPings = N, successful = k and
\* failed = N - k for the N probes recorded since the store was empty
C2_Original ==
    pc = "running" =>
        /\ stats.totalPings = Len(ping_results)
        /\ ToNumber(stats.successful) = NumOk(ping_results)
        /\ ToNumber(stats.failed) = NumNotOk(ping_results)

\* C2 amended: the monitor reports the counts of the recorded probes less the
\* rows that LIMIT queryLimit left out when the run loaded its statistics
C2_CountsOfCountedRows ==
    pc = "running" =>
        /\ stats.totalPings = Len(Counted)
        /\ ToNumber(stats.successful) = NumOk(Counted)
        /\ ToNumber(stats.failed) = NumNotOk(Counted)

\* a run that loaded more rows than queryLimit and has ticked since
C2_Witness ==
    /\ TickedThisRun
    /\ rowsAtStart > queryLimit
    /\ stats.totalPings = queryLimit + (Len(ping_results) - rowsAtStart)
    /\ stats.totalPings < Len(ping_results)

\* C3: once successful latencies have been recorded, historical_max is their
\* maximum, historical_min their minimum and total_sum / total_count their mean
C3_AggregatesOfSequence ==
    LET lat == SuccessfulLatencies(ping_results)
    IN  lat # <<>> =>
            /\ ping_stats.historical_max = SeqMax(lat)
            /\ ping_stats.historical_min = SeqMin(lat)
            /\ ping_stats.total_count = Len(lat)
            /\ Quot(ping_stats.total_sum, ping_stats.total_count) = Quot(SeqSum(lat), Len(lat))

\* the shape of [10, 5, 30]: middle, least, greatest, recorded into a fresh store
C3_Witness ==
    /\ pc = "running"
    /\ SuccessfulLatencies(ping_results) = <<2, 1, 3>>
    /\ Len(ping_results) = 3
    /\ ping_stats.historical_max = 3
    /\ ping_stats.historical_min = 1
    /\ Quot(ping_stats.total_sum, ping_stats.total_count) = Quot(2, 1)

HistoricalMin == IF ping_stats.historical_min = NULL THEN 0 ELSE ping_stats.historical_min

\* C4 as stated: the max and min of the snapshot handed over by a tick are the
\* durable historical_max and historical_min
C4_Original ==
    TickedThisRun =>
        /\ shown.stats.maxLatency = ping_stats.historical_max
        /\ shown.stats.minLatency = HistoricalMin

\* rows are only ever removed by --fresh
NoResetStep == Len(ping_results') >= Len(ping_results)

\* C5 as stated: without a reset, historical_max never decreases and
\* historical_min never increases, and neither do the max and min of
\* successive snapshots handed to the display
C5_Original ==
    [][NoResetStep =>
          /\ ping_stats'.historical_max >= ping_stats.historical_max
          /\ ping_stats.historical_min # NULL =>
                 /\ ping_stats'.historical_min # NULL
                 /\ ping_stats'.historical_min <= ping_stats.historical_min
          /\ (lastShown.valid /\ lastShown'.valid) =>
                 /\ lastShown'.snap.stats.maxLatency >= lastShown.snap.stats.maxLatency
                 /\ lastShown.snap.stats.minLatency # 0 =>
                        lastShown'.snap.stats.minLatency <= lastShown.snap.stats.minLatency]_vars

\* C6 as stated: the statistics a run loads for the same target are the max,
\* min and average of the last snapshot handed over before the restart
C6_Original ==
    (/\ pc = "running"
     /\ Len(ping_results) = rowsAtStart
     /\ lastShown.valid
     /\ lastShown.target = target) =>
        /\ stats.stats.maxLatency = lastShown.snap.stats.maxLatency
        /\ stats.stats.minLatency = lastShown.snap.stats.minLatency
        /\ stats.stats.avgLatency = lastShown.snap.stats.avgLatency

\* C7 as stated: in every durable state, every successful row of ping_results
\* has been accounted for in ping_stats
C7_Original ==
    LET lat == SuccessfulLatencies(ping_results)
    IN  /\ ping_stats.total_count = Len(lat)
        /\ ping_stats.total_sum = SeqSum(lat)
        /\ lat # <<>> =>
               /\ ping_stats.historical_max = SeqMax(lat)
               /\ ping_stats.historical_min = SeqMin(lat)

\* a step of the loop that records a failed probe
FailedTickStep ==
    /\ pc = "running"
    /\ pc' = "running"
    /\ Len(ping_results') = Len(ping_results) + 1
    /\ ping_results'[Len(ping_results')].is_successful = 0

\* C8: a failed probe leaves ping_stats, the window and the max/min/avg/p99 of
\* the snapshot as they were; totalPings and failed grow by one, successful
\* does not change
C8_FailedProbeFrame ==
    [][FailedTickStep =>
          /\ ping_stats' = ping_stats
          /\ stats'.latencies = stats.latencies
          /\ stats'.stats = stats.stats
          /\ shown'.latencies = stats.latencies
          /\ shown'.stats = stats.stats
          /\ stats'.successful = stats.successful
          /\ stats'.totalPings = stats.totalPings + 1
          /\ ToNumber(stats'.failed) = ToNumber(stats.failed) + 1]_vars

\* a failed probe has just been recorded on top of recorded successes
C8_Witness ==
    /\ TickedThisRun
    /\ ping_results[Len(ping_results)].is_successful = 0
    /\ ping_stats.total_count >= 2
    /\ stats.latencies # <<>>
    /\ shown = stats
    /\ ToNumber(stats.failed) >= 1

\* C9 as stated: the window never holds more than queryLimit entries
C9_Original == pc = "running" => Len(stats.latencies) <= queryLimit

\* the run started with an empty window; the successes it has pushed since
StartedEmpty == SuccessfulLatencies(SubSeq(ping_results, 1, rowsAtStart)) = <<>>
Pushed == SuccessfulLatencies(SubSeq(ping_results, rowsAtStart + 1, Len(ping_results)))

\* C10: a window that starts empty holds the last min(len, queryLimit)
\* latencies pushed, in arrival order
C10_WindowIsFifo ==
    (pc = "running" /\ StartedEmpty) =>
        /\ stats.latencies = LastN(Pushed, queryLimit)
        /\ TickedThisRun => shown.latencies = LastN(Pushed, queryLimit)

\* capacity 2 fed [1, 2, 3] holds [2, 3]
C10_Witness ==
    /\ pc = "running"
    /\ StartedEmpty
    /\ queryLimit = 2
    /\ Pushed = <<1, 2, 3>>
    /\ stats.latencies = <<2, 3>>


\* the element at index ceil(0.99 * n) - 1 of the window sorted ascending
NearestRank(arr) ==
    LET sorted == SortAsc(arr)
        n      == Len(sorted)
    IN  Quot(sorted[(99 * n + 99) \div 100], 1)

\* C11 as stated: for a non-empty window the reported p99 is the element at
\* index ceil(0.99 * n) - 1 of the sorted window, both in the statistics of the
\* running monitor (loaded at start, recomputed on each successful tick) and in
\* the summary logged over the last LOG_AFTER_PINGS entries
C11_Original ==
    /\ (pc = "running" /\ stats.latencies # <<>>) =>
            stats.stats.percentile99 = NearestRank(stats.latencies)
    /\ (summary.logged /\ summary.count > 0) =>
            summary.percentile99
                = NearestRank(LastN(stats.latencies, LOG_AFTER_PINGS))

\* C12 as stated: the percentile over an empty list of latencies is 0, in the
\* statistics loaded from a store with no successful row and in the summary
\* logged while the window is still empty
C12_Original ==
    /\ (pc = "running" /\ stats.latencies = <<>>) => stats.stats.percentile99 = Zero
    /\ (summary.logged /\ summary.count = 0) => summary.percentile99 = Zero

\* C13 as stated: once a record operation has completed, the store holds no
\* more probe rows than the retention cap
C13_Original == Len(ping_results) <= maxStorageLimit


\* C15 as stated: however many stop requests a process sees, db.close() and
\* screen.destroy() are each executed at most once
C15_Original == teardown.dbClose <= 1 /\ teardown.screenDestroy <= 1


LossIndicators ==
    {"Request timed out", "100% packet loss", "Destination host unreachable"}
HasLossIndicator(output) == \E t \in LossIndicators : Includes(output, t)
HasRecognizedReply(platform, output) ==
    /\ IncludesTimeEq(output)
    /\ \E i \in 1..Len(output) : Matches(platform, output[i])

\* C16: a probe settles with a latency only if the output holds "time=" and a
\* match of the platform's time pattern and holds no loss indicator; every other
\* output makes it fail, and a failure carries no latency
C16_SuccessOnlyOnReply ==
    probe.ran =>
        /\ probe.result.ok =>
              /\ HasRecognizedReply(spawned.platform, spawned.stdout)
              /\ ~HasLossIndicator(spawned.stdout)
        /\ ~probe.result.ok => probe.result.latency = Undefined

\* a reply line the pattern matches, next to a loss indicator: the probe fails
C16_Witness ==
    /\ probe.ran
    /\ spawned.target # NoTarget
    /\ HasRecognizedReply(spawned.platform, spawned.stdout)
    /\ Includes(spawned.stdout, "100% packet loss")
    /\ ~probe.result.ok

\* C17 as stated: a probe that fails for want of the raw-socket privilege
\* settles with an outcome other than that of a probe that timed out
C17_Original ==
    (probe.ran /\ spawned.target # NoTarget
        /\ spawned.stderr = "ping: socket: Operation not permitted"
        /\ spawned.stdout = <<>>)
    => probe.result # Ping(spawned.platform, spawned.target,
                           <<Text("Request timed out")>>)


\* a process whose validation probe failed: it starts and ends in one step
ValidationFailedStep == pc = "off" /\ exit'.cause = "validation"

\* C18: a run whose validation probe fails never enters the loop; it adds no
\* row to the store, leaves the counters of ping_stats as it found them (or as
\* --fresh left them) and hands no snapshot to the display
C18_ValidationFailureFrame ==
    [][ValidationFailedStep =>
          /\ pc' = "off"
          /\ \/ ping_results' = ping_results /\ ping_stats' = ping_stats
             \/ ping_results' = <<>> /\ ping_stats' = InitPingStats
          /\ shown' = shown
          /\ lastShown' \in {lastShown, NoSnapshot}]_vars

\* a run that failed its validation after an earlier run had recorded probes
\* and rendered snapshots
C18_Witness ==
    /\ pc = "off"
    /\ exit.cause = "validation"
    /\ Len(ping_results) >= 2
    /\ ping_stats.total_count >= 1
    /\ lastShown.valid
    /\ lastShown.snap.totalPings = Len(ping_results)

\* C19 as stated: a process whose validation probe failed exits with code 1
C19_Original == exit.cause = "validation" => exit.code = 1

\* an iteration of the loop that records a failed probe
FailedProbeStep ==
    /\ pc = "running"
    /\ Len(ping_results') > Len(ping_results)
    /\ ping_results'[Len(ping_results) + 1].is_successful = 0

\* C20: a failed probe in the loop does not end the run and is not tried again
\* within the iteration: exactly one failed result is recorded and counted,
\* the process does not exit and the loop goes on
C20_FailedProbeNotFatal ==
    [][FailedProbeStep =>
          /\ pc' = "running"
          /\ exit' = NoExit
          /\ Len(ping_results') = Len(ping_results) + 1
          /\ stats'.totalPings = stats.totalPings + 1
          /\ ToNumber(stats'.failed) = ToNumber(stats.failed) + 1]_vars

\* a run still in its loop after two failed probes in a row
C20_Witness ==
    /\ pc = "running"
    /\ Len(ping_results) >= rowsAtStart + 2
    /\ ping_results[Len(ping_results)].is_successful = 0
    /\ ping_results[Len(ping_results) - 1].is_successful = 0
    /\ ToNumber(stats.failed) >= 2
    /\ exit = NoExit


\* a process gets as far as its loop
RunStartsStep == pc = "off" /\ pc' = "running"

\* C28: the target of a run is the argument when one was given and the persisted
\* last target otherwise; with neither no run starts, and the process that
\* finds no target adds nothing to the store and renders nothing
C28_TargetResolution ==
    [][/\ RunStartsStep =>
            /\ target' # NoTarget
            /\ target' = IF argTarget' # NoTarget THEN argTarget'
                         ELSE GetLastTarget(settings)
       /\ (pc = "off" /\ exit'.cause = "no target") =>
            /\ pc' = "off"
            /\ GetLastTarget(settings) = NoTarget
            /\ UNCHANGED <<ping_results, ping_stats, settings, shown, lastShown>>]_vars

\* a run given an argument other than the target the last rendering run had
C28_Witness ==
    /\ pc = "running"
    /\ argTarget # NoTarget
    /\ target = argTarget
    /\ lastShown.valid
    /\ lastShown.target # argTarget
    /\ ~TickedThisRun

LastTargetRows == {r \in settings : r.key = "last_target"}

\* C29: a run given no argument probes the argument of the most recent run
\* that was given one, and the settings table never holds more than one
\* last_target row, and holds one as soon as a run has resolved its target
C29_LastWriteWins ==
    /\ (pc = "running" /\ argTarget = NoTarget) => target = lastExplicit
    /\ Cardinality(LastTargetRows) <= 1
    /\ lastExplicit # NoTarget =>
            LastTargetRows = {[key |-> "last_target", value |-> lastExplicit]}

\* a run without argument after the target was changed from the one the last
\* rendering run had
C29_Witness ==
    /\ pc = "running"
    /\ argTarget = NoTarget
    /\ target = lastExplicit
    /\ lastShown.valid
    /\ lastShown.target # target
    /\ ~TickedThisRun

\* C30 as stated, for the newest row of the store: a run started with a target
\* other than the persisted last target, the newest row having been recorded
\* for that last target, loads a snapshot that does not count the row
C30_Original ==
    [][(/\ RunStartsStep
        /\ lastShown.valid
        /\ lastShown' = lastShown
        /\ GetLastTarget(settings) = lastShown.target
        /\ target' # lastShown.target)
       => stats'.totalPings < Len(ping_results')]_vars


RecordedThisRun == Len(ping_results) - rowsAtStart

\* C23: at most one probe is in flight, and a probe begins only when none is
\* in flight and every probe begun before it in this run has its row in the
\* store and its snapshot on the display
C23_ProbesNeverOverlap ==
    [][/\ loop'.inFlight <= 1
       /\ loop'.inFlight > loop.inFlight =>
            /\ loop.inFlight = 0
            /\ loop.begun = RecordedThisRun
            /\ loop.begun = stats.totalPings - (rowsAtStart - CutOff)
            /\ loop.begun > 0 => shown = stats]_vars

\* the third probe of a run in flight, two rows recorded before it
C23_Witness ==
    /\ pc = "running"
    /\ loop.at = "probing"
    /\ loop.inFlight = 1
    /\ loop.begun = 3
    /\ RecordedThisRun = 2

\* C24 as stated: the version check being rejected leaves the monitor running
C24_Original ==
    [][(loop.versionCheck = "pending" /\ loop'.versionCheck = "rejected")
       => (pc' = "running" /\ exit' = NoExit)]_vars

\* C25 as stated: a termination signal that finds a probe in flight has the
\* result of that probe recorded before the process exits
C25_Original ==
    [][(pc = "running" /\ loop.inFlight > 0 /\ exit'.cause = "signal")
       => Len(ping_results') = Len(ping_results) + 1]_vars

\* C26 as stated: a started monitor that has terminated has closed the store
\* and destroyed the screen
C26_Original ==
    (pc = "off" /\ exit.cause \in {"signal", "validation", "quit key", "fatal",
                                   "returned", "uncaught exception",
                                   "unhandled rejection"})
    => (teardown.dbClose >= 1 /\ teardown.screenDestroy >= 1)


\* an iteration of the loop that runs to its wait
IterationStep ==
    pc = "running" /\ pc' = "running" /\ loop.at = "probing" /\ loop'.at = "waiting"

\* C21 as stated: in an iteration of the loop totalPings grows by 1, one of
\* successful and failed grows by 1 and the other stays, and at most one row
\* is appended, also when the store write throws
C21_Original ==
    [][IterationStep =>
          /\ stats'.totalPings = stats.totalPings + 1
          /\ \/ /\ ToNumber(stats'.successful) = ToNumber(stats.successful) + 1
                /\ ToNumber(stats'.failed) = ToNumber(stats.failed)
             \/ /\ ToNumber(stats'.successful) = ToNumber(stats.successful)
                /\ ToNumber(stats'.failed) = ToNumber(stats.failed) + 1
          /\ Len(ping_results') <= Len(ping_results) + 1]_vars

\* C22 as stated: an iteration whose store write throws leaves the monitor
\* running and the process alive
C22_Original ==
    [][(pc = "running" /\ ~loop.writeError /\ loop'.writeError)
       => (pc' = "running" /\ exit' = NoExit)]_vars

\* C27: a process ended by a fault in its loop, an uncaught exception or an
\* unhandled rejection has gone through stop (screen destroyed, store closed)
\* and exited with a code other than 0
C27_FaultsExitNonZero ==
    exit.cause \in {"fatal", "uncaught exception", "unhandled rejection"} =>
        /\ pc = "off"
        /\ exit.code # NULL
        /\ exit.code # 0
        /\ teardown.dbClose >= 1
        /\ teardown.screenDestroy >= 1

\* a run ended by a store write that threw twice in one iteration, after it
\* had recorded a probe
C27_Witness ==
    /\ pc = "off"
    /\ exit = Exit(1, "fatal")
    /\ loop.writeError
    /\ Len(ping_results) >= 2
    /\ teardown = StopTeardown(NoTeardown)


\* C31 as stated: the snapshot the display retains is an immutable copy; the
\* latencies and counters it holds are those handed over by the last completed
\* tick, whatever the monitor has done since
C31_Original == pc = "running" => DisplayStats = shown


\* a process constructs its DatabaseService
OpenStep == pc \in {"off", "cleaned"} /\ (pc' = "running" \/ exit'.cause = "no target")

\* the settings rows other than the last target, which the run itself writes
OtherSettings(table) == {r \in table : r.key # "last_target"}

\* C32: opening the store is idempotent. On a file that exists initDatabase,
\* run once or twice, changes nothing, and the process that opens it finds the
\* probe rows, the aggregate row and the settings as they were; on a new file
\* it makes no probe row and exactly one aggregate row, with id 1 and the
\* column defaults
C32_OpenIsIdempotent ==
    [][/\ InitDatabase(InitDatabase(CurrentFile)) = InitDatabase(CurrentFile)
       /\ dbFile => InitDatabase(CurrentFile) = CurrentFile
       /\ OpenStep =>
            /\ dbFile'
            /\ dbFile =>
                 /\ ping_results' = ping_results
                 /\ ping_stats' = ping_stats
                 /\ OtherSettings(settings') = OtherSettings(settings)
                 /\ exit'.cause = "no target" => settings' = settings
            /\ ~dbFile =>
                 /\ ping_results' = <<>>
                 /\ ping_stats' = InitPingStats
                 /\ InitDatabase(CurrentFile).ping_stats =
                        {[id |-> 1, row |-> InitPingStats]}]_vars

\* a run started on a file that an earlier run had made anew after a reset
\* and recorded a successful probe in
C32_Witness ==
    /\ pc = "running"
    /\ dbFile
    /\ Len(old_db) >= 1
    /\ rowsAtStart >= 1
    /\ ~TickedThisRun
    /\ ping_stats.total_count >= 1


\* C33 as stated, the period being that of the one thing the loop does every so
\* many ticks (the summary): a run that has completed that many ticks has
\* cleaned the logs and looked for a new version again since it started
C33_Original ==
    (pc = "running" /\ RecordedThisRun >= LogEvery)
    => (loop.cleanups > 1 /\ loop.versionChecks > 1)


\* C34 as stated: whatever stops the monitor while a probe is in flight,
\* saveResult is never called on the store once it is closed
C34_Original == loop.closedWrites = 0


\* C35 as stated: over every completed tick, also one whose store write throws,
\* the successful results counted in memory grow by as much as the durable
\* total_count, and the ticks counted by as much as the rows of the store
C35_Original ==
    [][IterationStep =>
          /\ ToNumber(stats'.successful) - ToNumber(stats.successful)
                = ping_stats'.total_count - ping_stats.total_count
          /\ stats'.totalPings - stats.totalPings
                = Len(ping_results') - Len(ping_results)]_vars


\* the sequence a ends the sequence b
IsSuffix(a, b) == Len(a) <= Len(b) /\ a = LastN(b, Len(a))

\* C36: the window a run starts with is the last min(s, MAX_GRAPH_SIZE) of the
\* s successful latencies in the store, oldest first, and with the latencies
\* pushed by the ticks that follow it stays a run of consecutive successful
\* latencies of the store in the order they were recorded, ending with the
\* newest
C36_SeedIsRecentInOrder ==
    pc = "running" =>
        /\ ~TickedThisRun =>
              stats.latencies = LastN(SuccessfulLatencies(ping_results), MAX_GRAPH_SIZE)
        /\ IsSuffix(stats.latencies, SuccessfulLatencies(ping_results))

\* a run that found more successful rows than the window is seeded with, of
\* differing latencies, and has pushed one more since
C36_Witness ==
    /\ TickedThisRun
    /\ Len(SuccessfulLatencies(SubSeq(ping_results, 1, rowsAtStart))) > MAX_GRAPH_SIZE
    /\ IsSuccessfulRow(ping_results[Len(ping_results)])
    /\ Len(stats.latencies) = MAX_GRAPH_SIZE + 1
    /\ stats.latencies[1] # stats.latencies[2]


\* C37 as stated: a reset copies the file that is there into old_db while the
\* original still stands, and removes the original only then, the newest
\* backup holding what is removed; the run that follows the reset starts with
\* totalPings, successful and failed at 0 and an empty window; and a reset
\* that finds no file changes neither the store nor the backups
C37_Original ==
    [][/\ (pc = "off" /\ pc' = "copied") =>
            /\ dbFile /\ dbFile'
            /\ old_db' = Append(old_db, CurrentFile)
            /\ UNCHANGED durable
       /\ (dbFile /\ ~dbFile') =>
            /\ pc = "copied"
            /\ old_db # <<>>
            /\ old_db[Len(old_db)] = CurrentFile
            /\ old_db' = old_db
       /\ (pc = "cleaned" /\ pc' = "running") =>
            /\ stats'.totalPings = 0
            /\ stats'.successful = 0
            /\ stats'.failed = 0
            /\ stats'.latencies = <<>>
       /\ (pc = "off" /\ ~dbFile /\ pc' = "cleaned") =>
            UNCHANGED <<durable, dbFile, old_db>>]_vars


\* C38 as stated: on win32 an output free of loss indicators with a line that
\* /time[=<](\d+)ms/ matches, "time<1ms" included, makes the probe succeed
\* with the latency of the first such line
C38_Original ==
    (/\ probe.ran
     /\ spawned.platform = "win32"
     /\ spawned.target # NoTarget
     /\ ~HasLossIndicator(spawned.stdout)
     /\ \E i \in 1..Len(spawned.stdout) : MatchesWin32(spawned.stdout[i]))
    => /\ probe.result.ok
       /\ probe.result = ParsePingOutput("win32", spawned.stdout)


\* a call of sendAnalytics, and one that began a request
SendStep == analytics'.calls = analytics.calls + 1
PostStep == analytics'.posts = analytics.posts + 1
\* the text w somewhere in the text s
Contains(s, w) ==
    \E i \in 1..(Len(s) - Len(w) + 1) : SubSeq(s, i, i + Len(w) - 1) = w
\* the text is the word true in any casing, with nothing but white space
\* before and after it
SaysTrue(s) ==
    \E i \in 1..Len(s) :
        /\ i + 3 <= Len(s)
        /\ \A k \in 1..(i - 1) : s[k] \in WhiteSpace
        /\ \A k \in (i + 4)..Len(s) : s[k] \in WhiteSpace
        /\ \A k \in 0..3 : s[i + k] \in {TrueText[k + 1], <<"T", "R", "U", "E">>[k + 1]}

\* C39 as stated: a call of sendAnalytics begins a request only when the
\* consent file exists and contains "true", and the promise of a call that
\* began a request is never rejected
C39_Original ==
    [][SendStep =>
         /\ PostStep => /\ analytics.file.exists
                        /\ Contains(analytics.file.content, TrueText)
         /\ PostStep => ~analytics'.propagated]_vars

\* C39: a call of sendAnalytics begins a request only when the consent file
\* exists and its text, white space at both ends and casing set aside, is
\* "true"; with the file absent or holding anything else the call begins no
\* request; a request that fails is logged and the promise of the call is not
\* rejected
C39_ConsentGatesPost ==
    [][SendStep =>
         /\ PostStep => /\ analytics.file.exists
                        /\ SaysTrue(analytics.file.content)
         /\ ~(analytics.file.exists /\ SaysTrue(analytics.file.content))
               => analytics'.posts = analytics.posts
         /\ PostStep => /\ ~analytics'.propagated
                        /\ analytics'.logged \in {analytics.logged,
                                                  analytics.logged + 1}]_vars
\* a request was begun and failed, the failure was logged and did not reach the
\* caller, under a consent file that reads TRUE
C39_Witness ==
    /\ analytics.calls = 1
    /\ analytics.posts = 1
    /\ analytics.logged = 1
    /\ ~analytics.propagated
    /\ analytics.file = ConsentFile(TRUE, <<"T", "R", "U", "E">>)

\* what the documentation of the worker asks of a body: every field, and a
\* success rate from 0 to 1
IsDocumentedPayload(data) ==
    /\ data.json
    /\ data.has = Fields
    /\ data.successRate.n <= data.successRate.d

\* C40 as stated: the worker answers 200 to every POST whose body carries all
\* documented fields within their documented ranges, a success rate or an
\* average latency of 0 included, answers 405 to every method other than POST
\* and OPTIONS, and sends PostHog an event only when ANALYTICS_ALLOWED is set
C40_Original ==
    worker.made =>
        /\ (worker.method = "POST" /\ IsDocumentedPayload(worker.body))
              => worker.status = 200
        /\ worker.method \notin {"POST", "OPTIONS"} => worker.status = 405
        /\ worker.forwarded => worker.allowed

====
